---- MODULE Spec2Model ----
(***************************************************************************)
(* The design-system component library: the CustomButton primitive         *)
(* wrapper, the customButtonVariants style extension, and a composed       *)
(* input driven by the Interactive story's parent (useState + onChange).   *)
(*                                                                         *)
(* JavaScript values are strings here.  Undefined stands for an absent or  *)
(* undefined prop; the booleans are "true" and "false".  A class string is *)
(* a sequence of class tokens (the string split on white space).           *)
(***************************************************************************)
EXTENDS Integers, Sequences, FiniteSets, TLC

VARIABLES
    mounted,    \* CustomButton: has the component rendered at least once
    props,      \* CustomButton: the props of the latest render
    ref,        \* CustomButton: the ref handed to forwardRef's render function
    out,        \* CustomButton: the element the latest render returned
    first,      \* CustomButton: props, ref and element of the mount render
    renders,    \* CustomButton: how many times the component has rendered
    selection,  \* customButtonVariants: the props of the latest resolution
    classes,    \* customButtonVariants: the class fragments it returned
    undeclared, \* how the resolver treated a value its table does not declare
    resolved,   \* customButtonVariants: has it been called
    storyMounted, \* Interactive story: has it rendered
    value,      \* Interactive story: the useState value of the latest render
    queue,      \* Interactive story: setValue updates not yet rendered
    shown,      \* composed input: the value prop it displays
    effects,    \* composed input: onChange calls put off to after the next render
    last,       \* composed input: the latest interaction ("type", "clear")
    lastCalls,  \* composed input: the onChange arguments of the latest interaction
    events,     \* the interactions, onChange calls and renders so far, in order
    appInput,   \* sst config: the input of the latest app(input) call
    appConfig,  \* sst config: what that call returned
    stageApps,  \* sst config: every input app was called with, and its result
    docStory,   \* Button stories: the story on display (0: none)
    docArgs,    \* Button stories: the args its controls hold
    docOut,     \* Button stories: the element the story's render returned
    docAlerts   \* Button stories: the alerts the button's onClick has raised

buttonVars == <<mounted, props, ref, out, first, renders>>
variantVars == <<selection, classes, undeclared, resolved>>
storyVars == <<storyMounted, value, queue, shown, effects, last, lastCalls, events>>
appVars == <<appInput, appConfig, stageApps>>
docVars == <<docStory, docArgs, docOut, docAlerts>>
vars == <<buttonVars, variantVars, storyVars, appVars, docVars>>

\* The renders of one CustomButton a behaviour follows.
MaxRenders == 4

Undefined == "undefined"
Null == "null"

\* JavaScript truthiness of the values the props take.
Truthy(v) == v \notin {Undefined, Null, "false", ""}

\* a && b
JsAnd(a, b) == IF Truthy(a) THEN b ELSE a

\* a || b
JsOr(a, b) == IF Truthy(a) THEN a ELSE b

(***************************************************************************)
(* cn: the class-name merging helper (clsx, then tailwind-merge).          *)
(***************************************************************************)

\* The class tokens of a class string.
Split(s) ==
    CASE s = "static cursor-pointer" -> <<"static", "cursor-pointer">>
      [] s = "relative" -> <<"relative">>
      [] s = "cursor-not-allowed" -> <<"cursor-not-allowed">>
      [] s = "mt-2" -> <<"mt-2">>
      [] OTHER -> <<>>

\* The style property a class token sets: two tokens of one group conflict.
ConflictGroup(t) ==
    CASE t \in {"relative", "static"} -> "position"
      [] t \in {"cursor-not-allowed", "cursor-pointer"} -> "cursor"
      [] OTHER -> t

RECURSIVE clsx(_)
\* The tokens of the truthy arguments, in argument order.
clsx(args) ==
    IF args = <<>> THEN <<>>
    ELSE (IF Truthy(Head(args)) THEN Split(Head(args)) ELSE <<>>)
         \o clsx(Tail(args))

RECURSIVE twMerge(_)
\* A token is dropped when a later token sets the same style property.
twMerge(toks) ==
    IF toks = <<>> THEN <<>>
    ELSE LET rest == Tail(toks)
             later == \E i \in 1..Len(rest) :
                          ConflictGroup(rest[i]) = ConflictGroup(Head(toks))
         IN (IF later THEN <<>> ELSE <<Head(toks)>>) \o twMerge(rest)

cn(args) == twMerge(clsx(args))

(***************************************************************************)
(* CustomButton                                                            *)
(***************************************************************************)

\* The props CustomButton's parameter list takes out of the props object.
Destructured == {"children", "isLoading", "loadingText", "className", "disabled"}

\* loadingText = "Loading..."
DefaultLoadingText == "Loading..."

LoadingText(p) ==
    IF p.loadingText = Undefined THEN DefaultLoadingText ELSE p.loadingText

\* A CustomButton that leaves disabled among the props it spreads.
RestProps_KeepsDisabled(p) ==
    [k \in DOMAIN p \ (Destructured \ {"disabled"}) |-> p[k]]

\* ...props
RestProps(p) == [k \in DOMAIN p \ Destructured |-> p[k]]

\* A CustomButton that merges the caller's className first.
ButtonClassName_OverrideFirst(isLoading, className) ==
    cn(<<className, "relative", JsAnd(isLoading, "cursor-not-allowed")>>)

\* cn("relative", isLoading && "cursor-not-allowed", className)
ButtonClassName(isLoading, className) ==
    cn(<<"relative", JsAnd(isLoading, "cursor-not-allowed"), className>>)

\* disabled || isLoading
ButtonDisabled(disabled, isLoading) == JsOr(disabled, isLoading)

\* A CustomButton whose content shows the loading text only when one was given.
ButtonContent_NoDefault(isLoading, loadingText, children) ==
    IF Truthy(isLoading) /\ loadingText # DefaultLoadingText
    THEN loadingText ELSE children

\* isLoading ? loadingText : children
ButtonContent(isLoading, loadingText, children) ==
    IF Truthy(isLoading) THEN loadingText ELSE children

\* A JSX attribute list: a later attribute of the same name wins.
Spread(attrs, rest) ==
    [k \in DOMAIN attrs \cup DOMAIN rest |->
        IF k \in DOMAIN rest THEN rest[k] ELSE attrs[k]]

\* <Button ref className disabled {...props}>{content}</Button>
ButtonElement(r, className, disabled, rest, content) ==
    [element  |-> "Button",
     ref      |-> r,
     attrs    |-> Spread([className |-> className, disabled |-> disabled], rest),
     children |-> content]

\* A CustomButton that attaches the ref only while the button is enabled.
CustomButton_RefWhenEnabled(p, r) ==
    ButtonElement(IF Truthy(ButtonDisabled(p.disabled, p.isLoading)) THEN Null ELSE r,
                  ButtonClassName(p.isLoading, p.className),
                  ButtonDisabled(p.disabled, p.isLoading),
                  RestProps(p),
                  ButtonContent(p.isLoading, LoadingText(p), p.children))

\* A CustomButton that adds the loading cursor only from its second render on.
CustomButton_MountDiffers(p, r) ==
    ButtonElement(r,
                  ButtonClassName(IF mounted THEN p.isLoading ELSE Undefined,
                                  p.className),
                  ButtonDisabled(p.disabled, p.isLoading),
                  RestProps(p),
                  ButtonContent(p.isLoading, LoadingText(p), p.children))

\* forwardRef((props, ref) => <Button ...>...</Button>)
CustomButton(p, r) ==
    ButtonElement(r,
                  ButtonClassName(p.isLoading, p.className),
                  ButtonDisabled(p.disabled, p.isLoading),
                  RestProps(p),
                  ButtonContent(p.isLoading, LoadingText(p), p.children))

\* The configurations explored.
Tri == {Undefined, "true", "false"}
ClassNames == {Undefined, "mt-2", "static cursor-pointer"}
LoadingTexts == {Undefined, "Processing..."}
Childrens == {"Click me", "Submit"}
Types == {Undefined, "submit"}
Refs == {Null, "buttonRef"}

PropsSpace ==
    [children : Childrens, isLoading : Tri, loadingText : LoadingTexts,
     className : ClassNames, disabled : Tri, type : Types]

NoProps ==
    [children |-> Undefined, isLoading |-> Undefined, loadingText |-> Undefined,
     className |-> Undefined, disabled |-> Undefined, type |-> Undefined]

NoElement == [element |-> "none"]

NoRender == [props |-> NoProps, ref |-> Null, out |-> NoElement]

InitButton ==
    /\ mounted = FALSE
    /\ props = NoProps
    /\ ref = Null
    /\ out = NoElement
    /\ first = NoRender
    /\ renders = 0

\* The first render of <CustomButton {...p} ref={r} />.
Mount(p, r) ==
    /\ ~mounted
    /\ mounted' = TRUE
    /\ props' = p
    /\ ref' = r
    /\ out' = CustomButton(p, r)
    /\ first' = [props |-> p, ref |-> r, out |-> out']
    /\ renders' = 1
    /\ UNCHANGED <<variantVars, storyVars, appVars, docVars>>

\* The parent renders again with one prop changed.
SetProp(k, v) ==
    /\ mounted
    /\ renders < MaxRenders
    /\ renders' = renders + 1
    /\ props[k] # v
    /\ props' = [props EXCEPT ![k] = v]
    /\ out' = CustomButton(props', ref)
    /\ UNCHANGED <<mounted, ref, first, variantVars, storyVars, appVars, docVars>>

\* The parent renders again with another ref.
SetRef(r) ==
    /\ mounted
    /\ renders < MaxRenders
    /\ renders' = renders + 1
    /\ ref # r
    /\ ref' = r
    /\ out' = CustomButton(props, r)
    /\ UNCHANGED <<mounted, props, first, variantVars, storyVars, appVars, docVars>>

\* The parent renders again with the same props and ref.
Rerender ==
    /\ mounted
    /\ renders < MaxRenders
    /\ renders' = renders + 1
    /\ out' = CustomButton(props, ref)
    /\ UNCHANGED <<mounted, props, ref, first, variantVars, storyVars, appVars, docVars>>

NextButton ==
    \/ \E p \in PropsSpace, r \in Refs : Mount(p, r)
    \/ \E k \in DOMAIN NoProps : \E v \in {q[k] : q \in PropsSpace} : SetProp(k, v)
    \/ \E r \in Refs : SetRef(r)
    \/ Rerender

(***************************************************************************)
(* Variant resolution: cva, buttonVariants, customButtonVariants           *)
(*                                                                         *)
(* A resolved class string is the sequence of the fragments joined into    *)
(* it: the base classes, one fragment per variant key, the caller's        *)
(* className.                                                              *)
(***************************************************************************)

\* An own property of a props object, undefined when it has none.
Get(p, k) == IF k \in DOMAIN p THEN p[k] ELSE Undefined

\* The variant keys, in the order the table declares them.
KeyOrder == <<"variant", "size">>

\* The Button primitive's base classes.
ButtonBase == <<"btn-base">>

\* The Button primitive's variant table: the values are the story's options.
ButtonTable ==
    [variant |-> [default |-> "btn-variant-default",
                  destructive |-> "btn-variant-destructive",
                  outline |-> "btn-variant-outline",
                  secondary |-> "btn-variant-secondary",
                  ghost |-> "btn-variant-ghost",
                  link |-> "btn-variant-link"],
     size |-> [default |-> "btn-size-default",
               sm |-> "btn-size-sm",
               lg |-> "btn-size-lg",
               icon |-> "btn-size-icon"]]

ButtonDefaults == [variant |-> "default", size |-> "default"]

ButtonConfig == [variants |-> ButtonTable, defaultVariants |-> ButtonDefaults]

\* cva called with base classes alone.
NoConfig == [variants |-> <<>>, defaultVariants |-> <<>>]

\* How a resolver may treat a selected value its table does not declare: the
\* library that decides it is no part of the repository's source.
UndeclaredPolicies == {"default", "omit"}

\* The fragment of key k for props p: the selected value's, the default's when
\* the key is not selected.
VariantFragment(config, k, p, policy) ==
    LET table == config.variants[k]
        dflt == Get(config.defaultVariants, k)
        v == IF Get(p, k) = Undefined THEN dflt ELSE Get(p, k)
    IN IF v \in DOMAIN table THEN <<table[v]>>
       ELSE IF v # Undefined /\ policy = "default" /\ dflt \in DOMAIN table
            THEN <<table[dflt]>>
            ELSE <<>>

RECURSIVE VariantFragments(_, _, _, _)
VariantFragments(config, keys, p, policy) ==
    IF keys = <<>> THEN <<>>
    ELSE (IF Head(keys) \in DOMAIN config.variants
          THEN VariantFragment(config, Head(keys), p, policy) ELSE <<>>)
         \o VariantFragments(config, Tail(keys), p, policy)

\* cva(base, config)(p): base, the variant fragments, then p.className.
CvaResolve(base, config, p, policy) ==
    base \o VariantFragments(config, KeyOrder, p, policy)
         \o (IF Truthy(Get(p, "className")) THEN <<Get(p, "className")>> ELSE <<>>)

buttonVariants(p, policy) == CvaResolve(ButtonBase, ButtonConfig, p, policy)

\* The values customButtonVariants adds.
ExtensionTable ==
    [variant |-> [custom |-> "bg-gradient-to-r from-blue-500 to-purple-500"],
     size |-> [xl |-> "h-12 px-8 text-lg"]]

\* The object customButtonVariants passes to buttonVariants.
ExtensionProps == [variants |-> ExtensionTable]

\* The table customButtonVariants is written to resolve against: the base
\* variants extended with custom and xl.
ExtendedTable ==
    [k \in DOMAIN ButtonTable |->
        [v \in DOMAIN ButtonTable[k] \cup DOMAIN ExtensionTable[k] |->
            IF v \in DOMAIN ExtensionTable[k]
            THEN ExtensionTable[k][v] ELSE ButtonTable[k][v]]]

\* A customButtonVariants that resolves against the extended table and
\* declares no default variants.
customButtonVariants_NoDefaults(p, policy) ==
    CvaResolve(ButtonBase,
               [variants |-> ExtendedTable, defaultVariants |-> <<>>], p, policy)

\* cva(buttonVariants({ variants: { ... } }))
customButtonVariants(p, policy) ==
    CvaResolve(buttonVariants(ExtensionProps, policy), NoConfig, p, policy)

\* The selections explored: declared values, the added ones, undeclared ones.
Variants ==
    {Undefined, "default", "destructive", "outline", "secondary", "ghost",
     "link", "custom", "bogus"}
Sizes == {Undefined, "default", "sm", "lg", "icon", "xl", "huge"}
Overrides == {Undefined, "mt-2"}

Selections == [variant : Variants, size : Sizes, className : Overrides]

InitVariants ==
    /\ selection = [variant |-> Undefined, size |-> Undefined,
                    className |-> Undefined]
    /\ classes = <<>>
    /\ undeclared = Undefined
    /\ resolved = FALSE

\* customButtonVariants(p)
Resolve(p, policy) ==
    /\ selection' = p
    /\ undeclared' = policy
    /\ classes' = customButtonVariants(p, policy)
    /\ resolved' = TRUE
    /\ UNCHANGED <<buttonVars, storyVars, appVars, docVars>>

NextVariants ==
    \E p \in Selections, policy \in UndeclaredPolicies : Resolve(p, policy)

(***************************************************************************)
(* A composed input in the Interactive story                               *)
(*                                                                         *)
(* The story holds the value in useState and renders the component with    *)
(* value={value} onChange={handleChange}.  The component is a composed     *)
(* search input: a text field and a clear action.                          *)
(***************************************************************************)

\* The interactions, callbacks and renders one behaviour follows.
MaxEvents == 8

Texts == {"", "a", "ab"}

Event(kind, v) == [kind |-> kind, value |-> v]

RECURSIVE Callbacks(_)
\* The onChange calls of a list of arguments, as events.
Callbacks(args) ==
    IF args = <<>> THEN <<>>
    ELSE <<Event("onChange", Head(args))>> \o Callbacks(Tail(args))

\* A handleChange that keeps at most one character.
handleChange_MaxLength(q, newValue) ==
    Append(q, IF newValue = "ab" THEN "a" ELSE newValue)

\* A handleChange that sets the value of the render it closed over.
handleChange_Stale(q, newValue) == Append(q, value)

\* handleChange = (newValue) => { setValue(newValue) }: the update is queued.
handleChange(q, newValue) == Append(q, newValue)

RECURSIVE handleChanges(_, _)
\* onChange called once per argument, in order.
handleChanges(q, args) ==
    IF args = <<>> THEN q
    ELSE handleChanges(handleChange(q, Head(args)), Tail(args))

\* useState on a render: the queued updates are applied in order.
useState(v, q) == IF q = <<>> THEN v ELSE q[Len(q)]

\* A composed input that reports a change from an effect, after the render.
ComposedNotify_FromEffect(kind, text) ==
    [now |-> <<>>, afterRender |-> <<IF kind = "clear" THEN "" ELSE text>>]

\* The onChange calls of one interaction: typing reports the new text, the
\* clear action reports "", each once and within the interaction.
ComposedNotify(kind, text) ==
    [now |-> <<IF kind = "clear" THEN "" ELSE text>>, afterRender |-> <<>>]

InitStory ==
    /\ storyMounted = FALSE
    /\ value = Undefined
    /\ queue = <<>>
    /\ shown = Undefined
    /\ effects = <<>>
    /\ last = "none"
    /\ lastCalls = <<>>
    /\ events = <<>>

\* The story's first render: useState(initialValue).
MountStory(initialValue) ==
    /\ ~storyMounted
    /\ storyMounted' = TRUE
    /\ value' = initialValue
    /\ shown' = initialValue
    /\ events' = <<Event("render", initialValue)>>
    /\ UNCHANGED <<queue, effects, last, lastCalls, buttonVars, variantVars, appVars, docVars>>

\* One interaction with the component and the callbacks it makes.
Interact(kind, text) ==
    LET n == ComposedNotify(kind, text)
    IN /\ storyMounted
       /\ Len(events) + 2 <= MaxEvents
       /\ events' = events \o <<Event(kind, text)>> \o Callbacks(n.now)
       /\ queue' = handleChanges(queue, n.now)
       /\ effects' = effects \o n.afterRender
       /\ last' = kind
       /\ lastCalls' = n.now
       /\ UNCHANGED <<storyMounted, value, shown, buttonVars, variantVars, appVars, docVars>>

\* The user edits the text field to text.
Type(text) == text # shown /\ Interact("type", text)

\* The user invokes the clear action.
Clear == Interact("clear", "")

\* The story renders again: the queued updates become the value, the
\* component shows it, and the effects of the render run.
Render ==
    /\ storyMounted
    /\ Len(events) + 1 + Len(effects) <= MaxEvents
    /\ value' = useState(value, queue)
    /\ shown' = value'
    /\ events' = events \o <<Event("render", value')>> \o Callbacks(effects)
    /\ queue' = handleChanges(<<>>, effects)
    /\ effects' = <<>>
    /\ lastCalls' = lastCalls \o effects
    /\ UNCHANGED <<storyMounted, last, buttonVars, variantVars, appVars, docVars>>

NextStory ==
    \/ \E v \in Texts : MountStory(v)
    \/ \E text \in Texts : Type(text)
    \/ Clear
    \/ Render

(***************************************************************************)
(* The deployment configuration: app(input)                                *)
(***************************************************************************)

\* A JavaScript boolean.
Bool(b) == IF b THEN "true" ELSE "false"

\* input?.stage
InputStage(input) == IF input.given THEN input.stage ELSE Undefined

\* list.includes(x)
Includes(list, x) == Bool(\E i \in 1..Len(list) : list[i] = x)

\* An app configuration that also protects the staging stage.
app_ProtectsStaging(input) ==
    [name    |-> "design-system",
     removal |-> IF InputStage(input) = "production" THEN "retain" ELSE "remove",
     protect |-> Includes(<<"production", "staging">>, InputStage(input)),
     home    |-> "aws"]

\* app(input)
app(input) ==
    [name    |-> "design-system",
     removal |-> IF InputStage(input) = "production" THEN "retain" ELSE "remove",
     protect |-> Includes(<<"production">>, InputStage(input)),
     home    |-> "aws"]

\* The stages explored: production, near misses of it, other stages.
Stages == {"production", "Production", "prod", "staging", "dev", ""}

\* No input at all, an input without a stage, an input with a stage.
AppInputs ==
    {[given |-> FALSE, stage |-> Undefined]}
    \cup {[given |-> TRUE, stage |-> st] : st \in Stages \cup {Undefined}}

NoApp == [name |-> Undefined]

InitApp ==
    /\ appInput = [given |-> FALSE, stage |-> Undefined]
    /\ appConfig = NoApp
    /\ stageApps = {}

\* The deployment tool calls app(input) for a stage.
Configure(input) ==
    /\ appInput' = input
    /\ appConfig' = app(input)
    /\ stageApps' = stageApps \cup {[input |-> input, app |-> appConfig']}
    /\ UNCHANGED <<buttonVars, variantVars, storyVars, docVars>>

NextApp == \E input \in AppInputs : Configure(input)

(***************************************************************************)
(* The Button stories                                                      *)
(***************************************************************************)

\* The clicks on the story's button one behaviour follows.
MaxAlerts == 4

\* meta.argTypes: the control table.
ArgTypes ==
    [variant |-> [control |-> "radio",
                  options |-> <<"default", "destructive", "outline",
                                "secondary", "ghost", "link">>],
     size    |-> [control |-> "radio",
                  options |-> <<"default", "sm", "lg", "icon">>]]

\* The values the control of a field offers.
Options(field) ==
    {ArgTypes[field].options[i] : i \in 1..Len(ArgTypes[field].options)}

\* A Primary story whose variant is taken from another component's options.
Primary_OtherOptions ==
    [name |-> "Button",
     args |-> [children |-> "Hello", variant |-> "primary", size |-> "default"]]

\* export const Primary
Primary ==
    [name |-> "Button",
     args |-> [children |-> "Hello", variant |-> "default", size |-> "default"]]

\* The named exports of the story file.
Stories == <<Primary>>

\* Primary.render(props): <Button {...props} onClick={...}>Hello</Button>
RenderStory(args) ==
    [element  |-> "Button",
     attrs    |-> Spread([k \in DOMAIN args \ {"children"} |-> args[k]],
                         [onClick |-> "alert"]),
     children |-> "Hello"]

NoArgs == [children |-> Undefined, variant |-> Undefined, size |-> Undefined]

InitDocs ==
    /\ docStory = 0
    /\ docArgs = NoArgs
    /\ docOut = NoElement
    /\ docAlerts = 0

\* The playground shows story i with its fixed args.
OpenStory(i) ==
    /\ docStory' = i
    /\ docArgs' = Stories[i].args
    /\ docOut' = RenderStory(docArgs')
    /\ UNCHANGED <<docAlerts, buttonVars, variantVars, storyVars, appVars>>

\* The reader picks an option in the control of a field.
SetControl(field, option) ==
    /\ docStory # 0
    /\ docArgs[field] # option
    /\ docArgs' = [docArgs EXCEPT ![field] = option]
    /\ docOut' = RenderStory(docArgs')
    /\ UNCHANGED <<docStory, docAlerts, buttonVars, variantVars, storyVars, appVars>>

\* The reader clicks the button: alert("Hello from Turborepo!").
ClickStory ==
    /\ docStory # 0
    /\ docAlerts < MaxAlerts
    /\ docAlerts' = docAlerts + 1
    /\ UNCHANGED <<docStory, docArgs, docOut, buttonVars, variantVars, storyVars, appVars>>

NextDocs ==
    \/ \E i \in 1..Len(Stories) : OpenStory(i)
    \/ \E field \in DOMAIN ArgTypes : \E option \in Options(field) :
          SetControl(field, option)
    \/ ClickStory

(***************************************************************************)
(* CustomButton: properties                                                *)
(***************************************************************************)

\* The class tokens the caller passed as className.
UserTokens == IF Truthy(props.className) THEN Split(props.className) ELSE <<>>

Indices(seq, t) == {i \in 1..Len(seq) : seq[i] = t}

Range(seq) == {seq[i] : i \in 1..Len(seq)}

\* C1: in every render of CustomButton the caller's className wins over the
\* computed classes: each of its tokens is in the rendered class list, every
\* other token of the list ("relative", "cursor-not-allowed") stands before
\* all of them, and none of those sets a style property the caller's
\* className sets.
C1_OverrideWins ==
    mounted =>
        LET cls == out.attrs.className
        IN /\ \A t \in Range(UserTokens) : Indices(cls, t) # {}
           /\ \A j \in 1..Len(cls) :
                 cls[j] \notin Range(UserTokens) =>
                    /\ \A t \in Range(UserTokens) :
                          /\ ConflictGroup(t) # ConflictGroup(cls[j])
                          /\ \A i \in Indices(cls, t) : j < i
                    /\ cls[j] \in {"relative", "cursor-not-allowed"}

\* A loading button whose className overrides both computed classes.
C1_Witness ==
    /\ mounted
    /\ props.isLoading = "true"
    /\ props.className = "static cursor-pointer"
    /\ out.attrs.className = <<"static", "cursor-pointer">>

\* C6: a loading CustomButton shows loadingText ("Loading..." when none is
\* given) and not its children; one that is not loading (isLoading false or
\* absent) shows its children and not the loading text.
C6_LoadingContent ==
    mounted =>
        LET text == IF props.loadingText = Undefined
                    THEN "Loading..." ELSE props.loadingText
        IN IF props.isLoading = "true"
           THEN out.children = text /\ out.children # props.children
           ELSE out.children = props.children /\ out.children # text

\* A loading button given no loadingText shows "Loading...".
C6_Witness ==
    /\ mounted
    /\ props.isLoading = "true"
    /\ props.loadingText = Undefined
    /\ out.children = "Loading..."

\* C7: every render of CustomButton returns one Button element that carries
\* the ref the caller passed, whatever isLoading, disabled and className are.
C7_RefForwarded ==
    mounted => out.element = "Button" /\ out.ref = ref

\* A loading, disabled button with a className and a ref.
C7_Witness ==
    /\ mounted
    /\ ref = "buttonRef"
    /\ props.isLoading = "true"
    /\ props.disabled = "true"
    /\ props.className # Undefined
    /\ out.ref = "buttonRef"

C11_DisabledWhileLoading ==
    mounted =>
        /\ out.attrs.disabled = "true"
              <=> (props.disabled = "true" \/ props.isLoading = "true")
        /\ out.attrs.disabled \in {"true", "false", Undefined}
        /\ "disabled" \notin DOMAIN RestProps(props)

\* A loading button the caller passed disabled={false} and another prop to.
C11_Witness ==
    /\ mounted
    /\ props.isLoading = "true"
    /\ props.disabled = "false"
    /\ props.type = "submit"
    /\ out.attrs.type = "submit"
    /\ out.attrs.disabled = "true"

(***************************************************************************)
(* Variant resolution: properties                                          *)
(***************************************************************************)

VariantKeys == {KeyOrder[i] : i \in 1..Len(KeyOrder)}

\* The positions of the resolved class string that hold a fragment of key k.
FragmentsAt(k) ==
    {i \in 1..Len(classes) :
        \E v \in DOMAIN ExtendedTable[k] : classes[i] = ExtendedTable[k][v]}

\* C2: for every supported variant x size selection, customButtonVariants
\* returns a non-empty class string holding the base classes and, for each
\* declared key, exactly one fragment: the one the table maps the selected
\* value to, and none of another value.
C2_OneFragmentPerKey ==
    (resolved /\ \A k \in VariantKeys : selection[k] \in DOMAIN ExtendedTable[k])
    => /\ classes # <<>>
       /\ SubSeq(classes, 1, Len(ButtonBase)) = ButtonBase
       /\ \A k \in VariantKeys :
             /\ Cardinality(FragmentsAt(k)) = 1
             /\ \A i \in FragmentsAt(k) :
                   classes[i] = ExtendedTable[k][selection[k]]

C4_ClearResets ==
    last = "clear" =>
        /\ lastCalls = <<"">>
        /\ queue = <<>> => (value = "" /\ shown = "")

\* A non-empty value was shown, then cleared and rendered.
C4_Witness ==
    /\ last = "clear"
    /\ queue = <<>>
    /\ shown = ""
    /\ \E i \in 1..Len(events) :
          /\ events[i] = Event("clear", "")
          /\ i > 1
          /\ events[i - 1] = Event("render", "ab")

\* C5: the value the component shows changes only on a render, to the value
\* the story supplies, and only to a value an earlier onChange call carried.
C5_ControlledValue ==
    [][(storyMounted /\ shown' # shown) =>
          /\ shown' = value'
          /\ \E i \in 1..Len(events) : events[i] = Event("onChange", shown')]_vars

\* The shown value has changed from "" to "ab" after onChange("ab").
C5_Witness ==
    /\ shown = "ab"
    /\ Len(events) >= 4
    /\ events[1] = Event("render", "")
    /\ events[Len(events)] = Event("render", "ab")
    /\ \E i \in 1..Len(events) : events[i] = Event("onChange", "ab")

\* C8: every onChange call stands right after the interaction that caused
\* it, and every interaction is followed at once by its onChange call: no
\* render and no other interaction comes between, so the calls are neither
\* batched nor reordered.
C8_SynchronousCallbacks ==
    \A i \in 1..Len(events) :
        /\ events[i].kind = "onChange" =>
              /\ i > 1
              /\ events[i - 1].kind \in {"type", "clear"}
              /\ events[i - 1].value = events[i].value
        /\ events[i].kind \in {"type", "clear"} =>
              /\ i < Len(events)
              /\ events[i + 1] = Event("onChange", events[i].value)

\* Two interactions with a render between them, each with its callback.
C8_Witness ==
    \E i, j \in 1..Len(events) :
        /\ i + 1 < j
        /\ events[i].kind = "onChange"
        /\ events[i + 1].kind = "render"
        /\ events[j].kind = "onChange"
        /\ events[j - 1].kind = "clear"

(***************************************************************************)
(* Deployment configuration: properties                                    *)
(***************************************************************************)

\* C12: for every input app was called with, absent inputs and stages
\* included, removal is "retain" when the stage is "production" and "remove"
\* otherwise, and protect is true exactly for the stage "production"; so
\* protect is true exactly when removal is "retain".
C12_ProductionOnlyProtected ==
    \A e \in stageApps :
        LET production == e.input.given /\ e.input.stage = "production"
        IN /\ e.app.removal = (IF production THEN "retain" ELSE "remove")
           /\ e.app.protect = (IF production THEN "true" ELSE "false")
           /\ e.app.protect = "true" <=> e.app.removal = "retain"

\* app has been called for production, for other stages and without input.
C12_Witness ==
    /\ \E e \in stageApps :
          /\ e.input.stage = "production"
          /\ e.app.removal = "retain"
          /\ e.app.protect = "true"
    /\ \E e \in stageApps :
          /\ e.input.stage = "staging"
          /\ e.app.removal = "remove"
          /\ e.app.protect = "false"
    /\ \E e \in stageApps : ~e.input.given /\ e.app.removal = "remove"
    /\ \E e \in stageApps : e.input.given /\ e.input.stage = Undefined

(***************************************************************************)
(* Button stories: properties                                              *)
(***************************************************************************)

\* C13: the fixed args of the story on display are values its control table
\* allows (variant among argTypes.variant.options, size among
\* argTypes.size.options), and no two stories of the file have the same
\* display name.
C13_StoryArgsAllowed ==
    /\ docStory # 0 =>
          \A field \in DOMAIN ArgTypes :
              Stories[docStory].args[field] \in Options(field)
    /\ \A i, j \in 1..Len(Stories) :
          Stories[i].name = Stories[j].name => i = j

\* The Primary story on display with its fixed args, rendered as a Button.
C13_Witness ==
    /\ docStory = 1
    /\ docArgs = Stories[1].args
    /\ docArgs.variant = "default"
    /\ docArgs.size = "default"
    /\ docOut.attrs.variant = "default"
    /\ docOut.children = "Hello"

Init == InitButton /\ InitVariants /\ InitStory /\ InitApp /\ InitDocs

Next == NextButton \/ NextVariants \/ NextStory \/ NextApp \/ NextDocs

Spec == Init /\ [][Next]_vars

SpecButton == Init /\ [][NextButton]_vars

SpecVariants == Init /\ [][NextVariants]_vars

SpecStory == Init /\ [][NextStory]_vars

SpecApp == Init /\ [][NextApp]_vars

SpecDocs == Init /\ [][NextDocs]_vars
====
